---- MODULE Spec2Model ----
\* Model of dedup_json.py: the seed normalizer, the path flattener, the
\* difference metric and the chained comparison loop compare_and_delete_jsons.
\*
\* Values.  A parsed JSON value is a pair <<tag, payload>>:
\*   <<"map", f>>    a dict, f a function from keys to values
\*   <<"seq", s>>    a list
\*   <<"int", n>>    an int            <<"float", h>>  a float of value h/2
\*   <<"bool", b>>   b \in {0, 1}      <<"str", cs>>   a string
\*   <<"null", 0>>   None
\* A string (a key, a string leaf, a path) is the sequence of its characters,
\* so that f-string concatenation and str.lower() are computed, not assumed.
EXTENDS Integers, Sequences, FiniteSets, TLC

VARIABLES
    source_dir_exists,          \* os.path.isdir(source_dir)
    json_files,                 \* sorted listing: json_files[i] is the content of file i
    is_deletion_mode,           \* delete_threshold_percent is not None
    delete_threshold_percent,   \* the threshold (0 when none was given)
    idx,                        \* number of files the loop has consumed
    previous_json_data,
    previous_json_filename,     \* index of the baseline file, 0 for None
    deleted_count,
    total_compared,
    disk,                       \* the files that still exist
    report,                     \* the lines printed, one tuple per file
    pc,
    fargs,                      \* arguments of a direct call of a helper
    fres                        \* the results of the direct calls, in order

vars == <<source_dir_exists, json_files, is_deletion_mode, delete_threshold_percent,
          idx, previous_json_data, previous_json_filename, deleted_count,
          total_compared, disk, report, pc, fargs, fres>>

engineVars == <<source_dir_exists, json_files, is_deletion_mode,
                delete_threshold_percent, idx, previous_json_data,
                previous_json_filename, deleted_count, total_compared, disk, report>>

\* ------------------------------------------------------------------ bounds
MaxFiles == 3
MaxVal == 1
MaxWidgets == 3

\* ------------------------------------------------------------------ values
PyNone == <<"null", 0>>
PyInt(n) == <<"int", n>>
PyFloat(h) == <<"float", h>>
PyBool(b) == <<"bool", b>>
PyStr(cs) == <<"str", cs>>
PyDict(f) == <<"map", f>>
PyList(s) == <<"seq", s>>

IsDict(v) == v[1] = "map"
IsList(v) == v[1] = "seq"
IsStr(v) == v[1] = "str"
\* isinstance(v, int): bool is a subclass of int
IsInt(v) == v[1] \in {"int", "bool"}
\* isinstance(v, (int, float))
IsNumber(v) == v[1] \in {"int", "bool", "float"}
\* the numeric value of a number, in halves
Halves(v) == IF v[1] = "float" THEN v[2] ELSE 2 * v[2]

\* ------------------------------------------------------------------ strings
K_seed == <<"s", "e", "e", "d">>
K_noise_seed == <<"n", "o", "i", "s", "e", "_", "s", "e", "e", "d">>
K_control_after_generate ==
    <<"c", "o", "n", "t", "r", "o", "l", "_", "a", "f", "t", "e", "r", "_",
      "g", "e", "n", "e", "r", "a", "t", "e">>
K_control_before_generate ==
    <<"c", "o", "n", "t", "r", "o", "l", "_", "b", "e", "f", "o", "r", "e", "_",
      "g", "e", "n", "e", "r", "a", "t", "e">>
K_widgets_values ==
    <<"w", "i", "d", "g", "e", "t", "s", "_", "v", "a", "l", "u", "e", "s">>
K_inputs == <<"i", "n", "p", "u", "t", "s">>
K_last_node_id == <<"l", "a", "s", "t", "_", "n", "o", "d", "e", "_", "i", "d">>
K_last_link_id == <<"l", "a", "s", "t", "_", "l", "i", "n", "k", "_", "i", "d">>
K_version == <<"v", "e", "r", "s", "i", "o", "n">>
K_date == <<"d", "a", "t", "e">>
K_time == <<"t", "i", "m", "e">>
K_meta_data_checksum ==
    <<"_", "m", "e", "t", "a", "_", "d", "a", "t", "a", "_",
      "c", "h", "e", "c", "k", "s", "u", "m">>
K_x == <<"x">>

S_randomize == <<"r", "a", "n", "d", "o", "m", "i", "z", "e">>
S_increment == <<"i", "n", "c", "r", "e", "m", "e", "n", "t">>
S_decrement == <<"d", "e", "c", "r", "e", "m", "e", "n", "t">>
S_fixed == <<"f", "i", "x", "e", "d">>
S_Randomize == <<"R", "a", "n", "d", "o", "m", "i", "z", "e">>
S_euler == <<"e", "u", "l", "e", "r">>

seed_keys == {K_seed, K_noise_seed}
control_keys_to_normalize == {K_control_after_generate, K_control_before_generate}
control_strings == {S_randomize, S_increment, S_decrement, S_fixed}
excluded_keys == {K_last_node_id, K_last_link_id, K_version, K_date, K_time,
                  K_meta_data_checksum}

UpperCase == <<"A", "B", "C", "D", "E", "F", "G", "H", "I", "J", "K", "L", "M",
               "N", "O", "P", "Q", "R", "S", "T", "U", "V", "W", "X", "Y", "Z">>
LowerCase == <<"a", "b", "c", "d", "e", "f", "g", "h", "i", "j", "k", "l", "m",
               "n", "o", "p", "q", "r", "s", "t", "u", "v", "w", "x", "y", "z">>
\* str.lower(), on ASCII text
LowerChar(c) ==
    IF \E i \in DOMAIN UpperCase : UpperCase[i] = c
    THEN LowerCase[CHOOSE i \in DOMAIN UpperCase : UpperCase[i] = c]
    ELSE c
Lower(cs) == [i \in DOMAIN cs |-> LowerChar(cs[i])]

\* isinstance(v, str) and v.lower() in ['randomize', 'increment', 'decrement', 'fixed']
IsControlString(v) == IsStr(v) /\ Lower(v[2]) \in control_strings

Digits == <<"0", "1", "2", "3", "4", "5", "6", "7", "8", "9">>
\* str(n) for n >= 0, as the f-string renders an index
RECURSIVE IntToStr(_)
IntToStr(n) ==
    IF n < 10 THEN <<Digits[n + 1]>>
    ELSE IntToStr(n \div 10) \o <<Digits[(n % 10) + 1]>>

\* ------------------------------------------------------------------ normalizer
\* One iteration of the enumerate loop over widgets_values, at 1-based index i.
\* The loop reads the live list, so an element rewritten by the previous
\* iteration is seen rewritten.
WidgetStepSlip(ws, i) ==
    LET value == ws[i] IN
    IF IsInt(value) /\ value[2] > -1
    THEN IF i + 1 <= Len(ws) /\ IsControlString(ws[i + 1])
         THEN [ws EXCEPT ![i] = PyStr(S_fixed)]
         ELSE ws
    ELSE IF IsControlString(value)
         THEN [ws EXCEPT ![i] = PyStr(S_fixed)]
         ELSE ws

WidgetStepAnyNumber(ws, i) ==
    LET value == ws[i] IN
    IF IsNumber(value)
    THEN IF i + 1 <= Len(ws) /\ IsControlString(ws[i + 1])
         THEN [ws EXCEPT ![i] = PyInt(0), ![i + 1] = PyStr(S_fixed)]
         ELSE ws
    ELSE IF IsControlString(value)
         THEN [ws EXCEPT ![i] = PyStr(S_fixed)]
         ELSE ws

WidgetStep(ws, i) ==
    LET value == ws[i] IN
    IF IsInt(value) /\ value[2] > -1
    THEN IF i + 1 <= Len(ws) /\ IsControlString(ws[i + 1])
         THEN [ws EXCEPT ![i] = PyInt(0), ![i + 1] = PyStr(S_fixed)]
         ELSE ws
    ELSE IF IsControlString(value)
         THEN [ws EXCEPT ![i] = PyStr(S_fixed)]
         ELSE ws

RECURSIVE ScanWidgets(_, _)
ScanWidgets(ws, i) ==
    IF i > Len(ws) THEN ws ELSE ScanWidgets(WidgetStep(ws, i), i + 1)

\* for key in seed_keys: a numeric value becomes 0
SeedRule(m) ==
    [k \in DOMAIN m |-> IF k \in seed_keys /\ IsNumber(m[k]) THEN PyInt(0) ELSE m[k]]

\* for key in control_keys_to_normalize: a string value becomes "fixed"
ControlRule(m) ==
    [k \in DOMAIN m |->
       IF k \in control_keys_to_normalize /\ IsStr(m[k]) THEN PyStr(S_fixed)
       ELSE m[k]]

\* the scan of workflow['widgets_values'], when it is a list
WidgetsRule(m) ==
    [k \in DOMAIN m |->
       IF k = K_widgets_values /\ IsList(m[k]) THEN PyList(ScanWidgets(m[k][2], 1))
       ELSE m[k]]

RECURSIVE normalize_workflow_seeds(_)

\* the explicit recursion into workflow['inputs'], when it is a dict
InputsRule(m) ==
    [k \in DOMAIN m |->
       IF k = K_inputs /\ IsDict(m[k]) THEN normalize_workflow_seeds(m[k]) ELSE m[k]]

\* the loop over workflow.items(): excluded keys are skipped, containers recursed
ItemsRule(m) ==
    [k \in DOMAIN m |->
       IF k \in excluded_keys THEN m[k]
       ELSE IF IsDict(m[k]) \/ IsList(m[k]) THEN normalize_workflow_seeds(m[k])
            ELSE m[k]]

\* The function mutates its argument in place; the model returns the mutated
\* value.  The rules run in the order of the code.
normalize_workflow_seeds(workflow) ==
    IF IsDict(workflow)
    THEN PyDict(ItemsRule(InputsRule(WidgetsRule(ControlRule(SeedRule(workflow[2]))))))
    ELSE IF IsList(workflow)
         THEN PyList([i \in DOMAIN workflow[2] |->
                        normalize_workflow_seeds(workflow[2][i])])
         ELSE workflow

\* ------------------------------------------------------------------ flattener
\* The value of a leaf as a member of a Python set: equality and hash make
\* 0, 0.0 and False one value, and 1, 1.0 and True one value.
PyValue(v) ==
    IF IsNumber(v) THEN <<"num", Halves(v)>> ELSE v

\* f"{path}.{k}" if path else k
DictPath(path, k) == IF path # <<>> THEN path \o <<".">> \o k ELSE k
\* f"{path}[{i}]", i the 0-based index
ListPath(path, i) == path \o <<"[">> \o IntToStr(i) \o <<"]">>

SetUnion(S) == UNION S

\* set(flatten_json_to_paths(obj, path)): the list is only ever used as a set
RECURSIVE flatten_json_to_paths(_, _)
flatten_json_to_paths(obj, path) ==
    IF IsDict(obj)
    THEN SetUnion({ LET v == obj[2][k]
                        new_path == DictPath(path, k)
                    IN IF IsDict(v) \/ IsList(v)
                       THEN flatten_json_to_paths(v, new_path)
                       ELSE {<<new_path, PyValue(v)>>}
                    : k \in DOMAIN obj[2] })
    ELSE IF IsList(obj)
         THEN SetUnion({ LET v == obj[2][i]
                             new_path == ListPath(path, i - 1)
                         IN IF IsDict(v) \/ IsList(v)
                            THEN flatten_json_to_paths(v, new_path)
                            ELSE {<<new_path, PyValue(v)>>}
                         : i \in DOMAIN obj[2] })
         ELSE {}

\* ------------------------------------------------------------------ metric
\* A percentage is the exact fraction <<numerator, denominator>>; the float
\* (difference_count / total) * 100 compares with an integer threshold as the
\* exact fraction does for every total below 50.
Percentage(difference_count, total_elements_in_union) ==
    IF total_elements_in_union = 0 THEN <<0, 1>>
    ELSE <<difference_count * 100, total_elements_in_union>>

\* difference_count = len(unique_to_1) + len(unique_to_2)
DifferenceCountOneSided(unique_to_1, unique_to_2) == Cardinality(unique_to_1)

DifferenceCount(unique_to_1, unique_to_2) ==
    Cardinality(unique_to_1) + Cardinality(unique_to_2)

calculate_json_difference_percentage(json1_data, json2_data) ==
    LET paths1 == flatten_json_to_paths(normalize_workflow_seeds(json1_data), <<>>)
        paths2 == flatten_json_to_paths(normalize_workflow_seeds(json2_data), <<>>)
        unique_to_1 == paths1 \ paths2
        unique_to_2 == paths2 \ paths1
        total_elements_in_union == Cardinality(paths1 \cup paths2)
    IN Percentage(DifferenceCount(unique_to_1, unique_to_2), total_elements_in_union)

\* percentage_diff < delete_threshold_percent
PctLess(d, t) == d[1] < t * d[2]

\* ------------------------------------------------------------------ inputs
\* The documents of the example runs, and the file contents the loop can meet.
DocF1 == PyDict((K_seed :> PyInt(1)) @@ (K_x :> PyInt(5)))
DocF2 == PyDict((K_seed :> PyInt(2)) @@ (K_x :> PyInt(5)))
DocF3 == PyDict((K_seed :> PyInt(3)) @@ (K_x :> PyInt(9)))
DocX == PyDict(K_x :> PyInt(5))
\* a file json.load cannot parse
InvalidJson == <<"invalid", 0>>
FileContents == {DocF1, DocF2, DocF3, DocX, PyNone, InvalidJson}
\* values of --delete-threshold (argparse type=float accepts any number)
Thresholds == {-5, 0, 50, 100, 150}
FileLists == UNION {[1..n -> FileContents] : n \in 0..MaxFiles}

\* ------------------------------------------------------------------ engine
\* A printed line: <<file, action, compared-against file (0: none), percentage>>
Line(file, action, against, d) == <<file, action, against, d>>
LineFile(r) == r[1]
LineAction(r) == r[2]
LineAgainst(r) == r[3]
LineDiff(r) == r[4]

Init ==
    /\ source_dir_exists \in BOOLEAN
    /\ json_files \in (IF source_dir_exists THEN FileLists ELSE {<<>>})
    /\ is_deletion_mode \in BOOLEAN
    /\ delete_threshold_percent \in (IF is_deletion_mode THEN Thresholds ELSE {0})
    /\ idx = 0
    /\ previous_json_data = PyNone
    /\ previous_json_filename = 0
    /\ deleted_count = 0
    /\ total_compared = 0
    /\ disk = DOMAIN json_files
    /\ report = <<>>
    /\ pc = "start"
    /\ fargs = <<>>
    /\ fres = <<>>

\* the early returns and the start of the loop
DirMissing ==
    /\ pc = "start"
    /\ ~source_dir_exists
    /\ pc' = "done"
    /\ UNCHANGED <<engineVars, fargs, fres>>

NoFiles ==
    /\ pc = "start"
    /\ source_dir_exists
    /\ json_files = <<>>
    /\ pc' = "done"
    /\ UNCHANGED <<engineVars, fargs, fres>>

Begin ==
    /\ pc = "start"
    /\ source_dir_exists
    /\ json_files # <<>>
    /\ pc' = "loop"
    /\ UNCHANGED <<engineVars, fargs, fres>>

\* the try block: <<loaded, current_json_data>>; every except branch continues
LoadNoContinue(content, io_ok) ==
    IF io_ok /\ content # InvalidJson THEN <<TRUE, content>> ELSE <<TRUE, PyNone>>

Load(content, io_ok) ==
    IF io_ok /\ content # InvalidJson THEN <<TRUE, content>> ELSE <<FALSE, PyNone>>

\* is_deletion_mode and percentage_diff < delete_threshold_percent
ShouldDeleteInclusive(percentage_diff) ==
    is_deletion_mode /\ percentage_diff[1] <= delete_threshold_percent * percentage_diff[2]

ShouldDelete(percentage_diff) ==
    is_deletion_mode /\ PctLess(percentage_diff, delete_threshold_percent)

\* the action string after the try around os.remove
RemoveActionKeptOnError(remove_ok) == IF remove_ok THEN "DELETED" ELSE "KEPT"

RemoveAction(remove_ok) == IF remove_ok THEN "DELETED" ELSE "DELETE_ERROR"

\* if action == "KEPT": the baseline becomes the current file
UpdatesBaselineAlways(action) == TRUE

UpdatesBaselineNever(action) == FALSE

UpdatesBaseline(action) == action = "KEPT"

SkipFile ==
    /\ pc = "loop"
    /\ idx < Len(json_files)
    /\ \E io_ok \in BOOLEAN :
         /\ ~Load(json_files[idx + 1], io_ok)[1]
         /\ report' = Append(report, Line(idx + 1, "ERROR", 0, <<0, 1>>))
    /\ idx' = idx + 1
    /\ UNCHANGED <<source_dir_exists, json_files, is_deletion_mode,
                   delete_threshold_percent, previous_json_data,
                   previous_json_filename, deleted_count, total_compared, disk,
                   pc, fargs, fres>>

InitialFile ==
    /\ pc = "loop"
    /\ idx < Len(json_files)
    /\ \E io_ok \in BOOLEAN :
         LET loaded == Load(json_files[idx + 1], io_ok) IN
         /\ loaded[1]
         /\ previous_json_data = PyNone
         /\ report' = Append(report, Line(idx + 1, "INITIAL", 0, <<0, 1>>))
         /\ previous_json_data' = loaded[2]
         /\ previous_json_filename' = idx + 1
    /\ idx' = idx + 1
    /\ UNCHANGED <<source_dir_exists, json_files, is_deletion_mode,
                   delete_threshold_percent, deleted_count, total_compared, disk,
                   pc, fargs, fres>>

CompareFile ==
    /\ pc = "loop"
    /\ idx < Len(json_files)
    /\ \E io_ok \in BOOLEAN, remove_ok \in BOOLEAN :
         LET loaded == Load(json_files[idx + 1], io_ok)
             current_json_data == loaded[2]
             percentage_diff ==
                 calculate_json_difference_percentage(current_json_data,
                                                      previous_json_data)
             deleting == ShouldDelete(percentage_diff)
             action == IF deleting THEN RemoveAction(remove_ok) ELSE "KEPT"
         IN
         /\ loaded[1]
         /\ previous_json_data # PyNone
         /\ deleting \/ remove_ok
         /\ total_compared' = total_compared + 1
         /\ disk' = IF action = "DELETED" THEN disk \ {idx + 1} ELSE disk
         /\ deleted_count' = IF action = "DELETED" THEN deleted_count + 1
                             ELSE deleted_count
         /\ report' = Append(report, Line(idx + 1, action, previous_json_filename,
                                          percentage_diff))
         /\ previous_json_data' = IF UpdatesBaseline(action) THEN current_json_data
                                  ELSE previous_json_data
         /\ previous_json_filename' = IF UpdatesBaseline(action) THEN idx + 1
                                      ELSE previous_json_filename
    /\ idx' = idx + 1
    /\ UNCHANGED <<source_dir_exists, json_files, is_deletion_mode,
                   delete_threshold_percent, pc, fargs, fres>>

\* the loop is exhausted: the summary is printed
Finish ==
    /\ pc = "loop"
    /\ idx = Len(json_files)
    /\ pc' = "done"
    /\ UNCHANGED <<engineVars, fargs, fres>>

Next == DirMissing \/ NoFiles \/ Begin \/ SkipFile \/ InitialFile \/ CompareFile
        \/ Finish

Spec == Init /\ [][Next]_vars

\* ------------------------------------------------------------------ reading the report
MaxOf(S) == CHOOSE x \in S : \A y \in S : y <= x
\* the file was compared: a distance was computed and a decision printed
Compared(r) == LineAction(r) \in {"KEPT", "DELETED", "DELETE_ERROR"}
Loaded(r) == LineAction(r) # "ERROR"
\* the document a line was compared against (None when there was none)
BaselineOf(r) == IF LineAgainst(r) = 0 THEN PyNone ELSE json_files[LineAgainst(r)]
\* difference_percent(D, baseline) of a line, recomputed from the documents
DiffOf(r) == calculate_json_difference_percentage(json_files[LineFile(r)], BaselineOf(r))
Below(d) == d[1] < delete_threshold_percent * d[2]
RetainedLines(n) == {j \in 1..n : LineAction(report[j]) \in {"INITIAL", "KEPT"}}
\* the file most recently retained among the first n lines, 0 when none
LastRetained(n) ==
    IF RetainedLines(n) = {} THEN 0 ELSE LineFile(report[MaxOf(RetainedLines(n))])
LoadedLines(n) == {j \in 1..n : Loaded(report[j])}
\* the file most recently loaded among the first n lines, 0 when none
LastLoaded(n) ==
    IF LoadedLines(n) = {} THEN 0 ELSE LineFile(report[MaxOf(LoadedLines(n))])
DataOf(file) == IF file = 0 THEN PyNone ELSE json_files[file]

C2_BaselineIsLastRetained ==
    /\ previous_json_filename = LastRetained(Len(report))
    /\ previous_json_data = DataOf(previous_json_filename)
    /\ \A j \in DOMAIN report :
         /\ Compared(report[j]) => LineAgainst(report[j]) = LastRetained(j - 1)
         /\ LineAction(report[j]) \in {"DELETED", "DELETE_ERROR", "ERROR"} =>
              /\ previous_json_filename # LineFile(report[j])
              /\ \A k \in DOMAIN report : LineAgainst(report[k]) # LineFile(report[j])

\* a document was compared against the last retained one although a deleted
\* document lies between them
C2_Witness ==
    \E j \in DOMAIN report, k \in DOMAIN report :
      /\ j < k
      /\ LineAction(report[j]) = "DELETED"
      /\ Compared(report[k])
      /\ LineAgainst(report[k]) < LineFile(report[j])

\* ------------------------------------------------------------------ C3
\* C3 as stated: with threshold 0 a compared document at distance 0 gets the
\* drop decision (its deletion is attempted) and one at a positive distance is
\* kept.
C3_ZeroThresholdDropsDuplicates ==
    (is_deletion_mode /\ delete_threshold_percent = 0) =>
      \A j \in DOMAIN report :
        Compared(report[j]) =>
          IF DiffOf(report[j])[1] = 0
          THEN LineAction(report[j]) \in {"DELETED", "DELETE_ERROR"}
          ELSE LineAction(report[j]) = "KEPT"

\* ------------------------------------------------------------------ C4
\* C4: without a threshold nothing is deleted, every compared document is
\* KEPT, and each is measured against the loaded document just before it.
C4_ReportOnlyKeepsAll ==
    ~is_deletion_mode =>
      /\ disk = DOMAIN json_files
      /\ deleted_count = 0
      /\ previous_json_filename = LastLoaded(Len(report))
      /\ \A j \in DOMAIN report :
           LET r == report[j] IN
           /\ LineAction(r) \in {"ERROR", "INITIAL", "KEPT"}
           /\ Compared(r) =>
                /\ LineAgainst(r) = LastLoaded(j - 1)
                /\ LineDiff(r) = calculate_json_difference_percentage(
                                    json_files[LineFile(r)], DataOf(LastLoaded(j - 1)))

\* a report-only run kept a duplicate (distance 0) and then a different document
C4_Witness ==
    /\ ~is_deletion_mode
    /\ pc = "done"
    /\ \E j \in DOMAIN report, k \in DOMAIN report :
         /\ j < k
         /\ LineAction(report[j]) = "KEPT" /\ LineDiff(report[j])[1] = 0
         /\ LineAction(report[k]) = "KEPT" /\ LineDiff(report[k])[1] > 0
         /\ LineAgainst(report[k]) = LineFile(report[j])

\* ------------------------------------------------------------------ C8
\* C8 as stated: with a threshold below 0 or above 100 the run is rejected at
\* entry: no document is compared and no document is deleted.
C8_OutOfRangeRejected ==
    (is_deletion_mode /\ (delete_threshold_percent < 0 \/ delete_threshold_percent > 100))
      => /\ total_compared = 0
         /\ disk = DOMAIN json_files

\* ------------------------------------------------------------------ C9
\* a compared document met the drop condition and is still on disk
DeleteFailed(j) ==
    /\ is_deletion_mode
    /\ Compared(report[j])
    /\ Below(DiffOf(report[j]))
    /\ LineFile(report[j]) \in disk

\* C9: a failed delete is reported as DELETE_ERROR, is not counted, leaves the
\* baseline as it was, and the documents after it are still processed and
\* compared against that same baseline (until one of them is kept).
C9_DeleteErrorKeepsBaseline ==
    /\ deleted_count = Cardinality({j \in DOMAIN report : LineAction(report[j]) = "DELETED"})
    /\ deleted_count = Cardinality(DOMAIN json_files \ disk)
    /\ pc = "done" => Len(report) = Len(json_files)
    /\ \A j \in DOMAIN report :
         DeleteFailed(j) =>
           /\ LineAction(report[j]) = "DELETE_ERROR"
           /\ j = Len(report) =>
                /\ previous_json_filename = LineAgainst(report[j])
                /\ previous_json_data = BaselineOf(report[j])
           /\ \A k \in DOMAIN report :
                (/\ k > j
                 /\ Loaded(report[k])
                 /\ \A m \in (j + 1)..(k - 1) : LineAction(report[m]) # "KEPT")
                => /\ Compared(report[k])
                   /\ LineAgainst(report[k]) = LineAgainst(report[j])

\* a delete failed and a later document was compared
C9_Witness ==
    \E j \in DOMAIN report, k \in DOMAIN report :
      /\ j < k
      /\ DeleteFailed(j)
      /\ LineAction(report[j]) = "DELETE_ERROR"
      /\ Compared(report[k])

\* ------------------------------------------------------------------ C10
\* C10: a document that fails to load is reported as an error and skipped: it
\* is not counted as compared, is never the baseline of a comparison, is not
\* deleted, leaves the baseline unchanged, and the loop goes on.
C10_LoadFailureSkipped ==
    /\ total_compared = Cardinality({j \in DOMAIN report : Compared(report[j])})
    /\ idx = Len(report)
    /\ \A j \in DOMAIN report :
         LET r == report[j] IN
         /\ LineFile(r) = j
         /\ json_files[LineFile(r)] = InvalidJson => LineAction(r) = "ERROR"
         /\ LineAction(r) = "ERROR" =>
              /\ LineFile(r) \in disk
              /\ previous_json_filename # LineFile(r)
              /\ \A k \in DOMAIN report : LineAgainst(report[k]) # LineFile(r)
              /\ j = Len(report) =>
                   /\ previous_json_filename = LastRetained(j - 1)
                   /\ previous_json_data = DataOf(LastRetained(j - 1))

\* an unparsable file was skipped between the initial file and a compared one
C10_Witness ==
    \E i \in DOMAIN report, j \in DOMAIN report, k \in DOMAIN report :
      /\ i < j /\ j < k
      /\ LineAction(report[i]) = "INITIAL"
      /\ json_files[LineFile(report[j])] = InvalidJson
      /\ LineAction(report[j]) = "ERROR"
      /\ Compared(report[k])
      /\ LineAgainst(report[k]) = LineFile(report[i])

\* ------------------------------------------------------------------ direct calls
\* The helpers called on their own, on inputs drawn from bounded sets.
EngineIdle ==
    /\ source_dir_exists = FALSE
    /\ json_files = <<>>
    /\ is_deletion_mode = FALSE
    /\ delete_threshold_percent = 0
    /\ idx = 0
    /\ previous_json_data = PyNone
    /\ previous_json_filename = 0
    /\ deleted_count = 0
    /\ total_compared = 0
    /\ disk = {}
    /\ report = <<>>

\* widgets_values lists of up to MaxWidgets elements
WidgetElems == {PyInt(5), PyInt(-1), PyFloat(3), PyBool(1), PyStr(S_Randomize),
                PyStr(S_fixed), PyStr(S_euler)}
WidgetLists == UNION {[1..n -> WidgetElems] : n \in 0..MaxWidgets}
\* a node holding the list, alone and nested the ways the normalizer descends
Node(ws) ==
    PyDict((K_widgets_values :> PyList(ws)) @@ (K_seed :> PyInt(7))
           @@ (K_control_after_generate :> PyStr(S_randomize)))
NormTrees ==
    UNION { { PyDict(K_widgets_values :> PyList(ws)),
              Node(ws),
              PyDict(K_inputs :> Node(ws)),
              PyList(<<Node(ws), PyInt(3)>>),
              PyDict((K_version :> Node(ws)) @@ (K_noise_seed :> PyFloat(3))) }
            : ws \in WidgetLists }

InitNormalize ==
    /\ EngineIdle
    /\ fargs \in {<<t>> : t \in NormTrees}
    /\ fres = <<>>
    /\ pc = "call"

\* normalize_workflow_seeds applied to the tree, then to its own result
NormalizeCall ==
    /\ pc = "call"
    /\ fres' = Append(fres, normalize_workflow_seeds(
                              IF fres = <<>> THEN fargs[1] ELSE fres[Len(fres)]))
    /\ pc' = IF Len(fres) = 1 THEN "done" ELSE "call"
    /\ UNCHANGED <<engineVars, fargs>>

NextNormalize == NormalizeCall

SpecNormalize == InitNormalize /\ [][NextNormalize]_vars

\* flat documents: each key absent or holding an int of 0..MaxVal
DiffKeys == <<K_seed, K_x, K_version, K_last_node_id>>
DiffSlots == [1..Len(DiffKeys) -> (-1)..MaxVal]
DiffTree(slot) ==
    LET present == {i \in DOMAIN DiffKeys : slot[i] >= 0}
    IN PyDict([k \in {DiffKeys[i] : i \in present} |->
                 PyInt(slot[CHOOSE i \in present : DiffKeys[i] = k])])
DiffTrees == {DiffTree(slot) : slot \in DiffSlots}

InitDiff ==
    /\ EngineIdle
    /\ fargs \in DiffTrees \X DiffTrees
    /\ fres = <<>>
    /\ pc = "call"

DiffCall ==
    /\ pc = "call"
    /\ fres' = <<calculate_json_difference_percentage(fargs[1], fargs[2])>>
    /\ pc' = "done"
    /\ UNCHANGED <<engineVars, fargs>>

NextDiff == DiffCall

SpecDiff == InitDiff /\ [][NextDiff]_vars

\* ------------------------------------------------------------------ C5
\* the two trees have the same shape and agree everywhere except, possibly,
\* in what is stored under the bookkeeping keys
RECURSIVE SameExceptExcluded(_, _)
SameExceptExcluded(a, b) ==
    IF IsDict(a) /\ IsDict(b)
    THEN /\ DOMAIN a[2] = DOMAIN b[2]
         /\ \A k \in DOMAIN a[2] :
              k \in excluded_keys \/ SameExceptExcluded(a[2][k], b[2][k])
    ELSE IF IsList(a) /\ IsList(b)
         THEN /\ Len(a[2]) = Len(b[2])
              /\ \A i \in DOMAIN a[2] : SameExceptExcluded(a[2][i], b[2][i])
         ELSE a = b

\* C5 as stated: two trees identical except under the bookkeeping keys are at
\* distance 0.
C5_ExcludedKeyImmunity ==
    (pc = "done" /\ SameExceptExcluded(fargs[1], fargs[2])) => fres[1][1] = 0

\* ------------------------------------------------------------------ C6
\* C6: normalizing a normalized tree changes nothing.
C6_NormalizeIdempotent ==
    Len(fres) = 2 => fres[2] = fres[1]

\* a list with two consecutive numbers before a control string was normalized
\* twice, and the first pass changed it
C6_Witness ==
    /\ Len(fres) = 2
    /\ fargs[1] = PyDict(K_widgets_values :>
                           PyList(<<PyInt(5), PyInt(5), PyStr(S_Randomize)>>))
    /\ fres[1] # fargs[1]

\* ------------------------------------------------------------------ C7
\* both trees are flat, normalized, hold the same keys, and differ in the value
\* of exactly one of them
OneLeafChanged(a, b) ==
    /\ normalize_workflow_seeds(a) = a
    /\ normalize_workflow_seeds(b) = b
    /\ DOMAIN a[2] = DOMAIN b[2]
    /\ Cardinality({k \in DOMAIN a[2] : a[2][k] # b[2][k]}) = 1
SharedLeaves(a) == Cardinality(DOMAIN a[2])

\* C7 as stated: one changed leaf among k shared leaf paths is one difference
\* out of k, 100/k percent (50 for k = 2).
C7_OneChangedLeafOutOfK ==
    (pc = "done" /\ OneLeafChanged(fargs[1], fargs[2]))
      => fres[1][1] * SharedLeaves(fargs[1]) = 100 * fres[1][2]

\* C7 amended: one changed leaf among k shared leaf paths is two differing
\* (path, value) pairs out of k + 1 in the union, 200/(k + 1) percent
\* (66.67 for k = 2).
C7_OneChangedLeafTwoOutOfKPlusOne ==
    (pc = "done" /\ OneLeafChanged(fargs[1], fargs[2]))
      => fres[1][1] * (SharedLeaves(fargs[1]) + 1) = 200 * fres[1][2]

\* {seed: 0, x: 1} was compared with {seed: 0, x: 0}
C7_Witness ==
    /\ pc = "done"
    /\ fargs[1] = PyDict((K_seed :> PyInt(0)) @@ (K_x :> PyInt(1)))
    /\ fargs[2] = PyDict((K_seed :> PyInt(0)) @@ (K_x :> PyInt(0)))
    /\ OneLeafChanged(fargs[1], fargs[2])
    /\ fres[1] = <<200, 3>>

\* ------------------------------------------------------------------ C11
\* widgets_values lists that end in a (number, control string) pair
PairNumbers == {PyInt(0), PyInt(42), PyInt(123456), PyInt(-1), PyInt(-7),
                PyFloat(3), PyBool(1)}
PairControls == {PyStr(S_randomize), PyStr(S_increment), PyStr(S_decrement),
                 PyStr(S_fixed), PyStr(S_Randomize)}
PairPrefixes == {<<>>, <<PyInt(42)>>}
PairTrees ==
    {PyDict(K_widgets_values :> PyList(pre \o <<n, c>>)) :
       pre \in PairPrefixes, n \in PairNumbers, c \in PairControls}
WidgetsOf(tree) == tree[2][K_widgets_values][2]

InitPair ==
    /\ EngineIdle
    /\ fargs \in PairTrees \X PairTrees
    /\ fres = <<>>
    /\ pc = "call"

\* both trees normalized, and their distance
PairCall ==
    /\ pc = "call"
    /\ fres' = <<normalize_workflow_seeds(fargs[1]), normalize_workflow_seeds(fargs[2]),
                 calculate_json_difference_percentage(fargs[1], fargs[2])>>
    /\ pc' = "done"
    /\ UNCHANGED <<engineVars, fargs>>

NextPair == PairCall

SpecPair == InitPair /\ [][NextPair]_vars

\* element i is immediately followed by a control string
FollowedByControl(ws, i) ==
    /\ i + 1 <= Len(ws)
    /\ ws[i + 1][1] = "str"
    /\ Lower(ws[i + 1][2]) \in {S_randomize, S_increment, S_decrement, S_fixed}
\* an int (or bool) of value 0 or more
NonNegativeInt(v) == v[1] \in {"int", "bool"} /\ v[2] >= 0
AnyNumber(v) == v[1] \in {"int", "bool", "float"}
\* the lists agree everywhere except in one (number, control string) pair
DifferOnlyInPair(wa, wb) ==
    /\ Len(wa) = Len(wb)
    /\ \E i \in DOMAIN wa :
         /\ AnyNumber(wa[i]) /\ AnyNumber(wb[i])
         /\ FollowedByControl(wa, i) /\ FollowedByControl(wb, i)
         /\ \A j \in DOMAIN wa : j \in {i, i + 1} \/ wa[j] = wb[j]
PairedNumbers(ws) == {i \in DOMAIN ws : AnyNumber(ws[i]) /\ FollowedByControl(ws, i)}

\* C11 as stated: every number followed by a control string becomes 0 and the
\* string "fixed", so two lists that differ only in such a pair are at distance 0.
C11_AnyNumberBeforeControlZeroed ==
    pc = "done" =>
      /\ \A t \in 1..2 : \A i \in PairedNumbers(WidgetsOf(fargs[t])) :
           /\ WidgetsOf(fres[t])[i] = PyInt(0)
           /\ WidgetsOf(fres[t])[i + 1] = PyStr(S_fixed)
      /\ DifferOnlyInPair(WidgetsOf(fargs[1]), WidgetsOf(fargs[2])) => fres[3][1] = 0

\* C11 amended: an int of value 0 or more followed by a control string becomes
\* 0; a float or a negative int followed by one is left as it is; the control
\* string becomes "fixed" either way; two lists that differ only in a pair
\* whose numbers are both ints of 0 or more are at distance 0.
C11_NonNegativeIntBeforeControlZeroed ==
    pc = "done" =>
      /\ \A t \in 1..2 : \A i \in PairedNumbers(WidgetsOf(fargs[t])) :
           /\ WidgetsOf(fres[t])[i] =
                (IF NonNegativeInt(WidgetsOf(fargs[t])[i]) THEN PyInt(0)
                 ELSE WidgetsOf(fargs[t])[i])
           /\ WidgetsOf(fres[t])[i + 1] = PyStr(S_fixed)
      /\ (/\ DifferOnlyInPair(WidgetsOf(fargs[1]), WidgetsOf(fargs[2]))
          /\ \A t \in 1..2 : \A i \in PairedNumbers(WidgetsOf(fargs[t])) :
               NonNegativeInt(WidgetsOf(fargs[t])[i]))
         => fres[3][1] = 0

\* [123456, "randomize"] and [42, "increment"] both became [0, "fixed"]
C11_Witness ==
    /\ pc = "done"
    /\ WidgetsOf(fargs[1]) = <<PyInt(123456), PyStr(S_randomize)>>
    /\ WidgetsOf(fargs[2]) = <<PyInt(42), PyStr(S_increment)>>
    /\ WidgetsOf(fres[1]) = <<PyInt(0), PyStr(S_fixed)>>
    /\ WidgetsOf(fres[2]) = <<PyInt(0), PyStr(S_fixed)>>
    /\ fres[3][1] = 0

\* ------------------------------------------------------------------ C12
K_a == <<"a">>
K_b == <<"b">>
K_a_dot_b == <<"a", ".", "b">>
K_a_index0 == <<"a", "[", "0", "]">>
K_index0 == <<"[", "0", "]">>
K_empty == <<>>
\* documents whose keys hold '.', '[0]' or nothing, next to the nested
\* documents they can be taken for
PathTrees ==
    { PyDict(K_a_dot_b :> PyInt(1)),
      PyDict(K_a :> PyDict(K_b :> PyInt(1))),
      PyDict(K_a :> PyDict(K_b :> PyInt(2))),
      PyList(<<PyInt(1)>>),
      PyDict(K_index0 :> PyInt(1)),
      PyDict(K_empty :> PyDict(K_x :> PyInt(1))),
      PyDict(K_x :> PyInt(1)),
      PyDict(K_x :> PyInt(2)),
      PyDict(K_a :> PyList(<<PyInt(1)>>)),
      PyDict(K_a_index0 :> PyInt(1)),
      PyList(<<PyDict(K_x :> PyInt(1))>>),
      PyDict(K_index0 :> PyDict(K_x :> PyInt(1))) }

InitFlatten ==
    /\ EngineIdle
    /\ fargs \in PathTrees \X PathTrees
    /\ fres = <<>>
    /\ pc = "call"

\* the path sets of both trees (lines 81-82), and their distance
FlattenCall ==
    /\ pc = "call"
    /\ fres' = <<flatten_json_to_paths(normalize_workflow_seeds(fargs[1]), <<>>),
                 flatten_json_to_paths(normalize_workflow_seeds(fargs[2]), <<>>),
                 calculate_json_difference_percentage(fargs[1], fargs[2])>>
    /\ pc' = "done"
    /\ UNCHANGED <<engineVars, fargs>>

NextFlatten == FlattenCall

SpecFlatten == InitFlatten /\ [][NextFlatten]_vars

\* the leaves of a tree, each with its route from the root: the sequence of
\* mapping keys and sequence indices that leads to it
RECURSIVE Leaves(_, _)
Leaves(tree, route) ==
    IF tree[1] = "map"
    THEN UNION {Leaves(tree[2][k], Append(route, <<"key", k>>)) : k \in DOMAIN tree[2]}
    ELSE IF tree[1] = "seq"
         THEN UNION {Leaves(tree[2][i], Append(route, <<"index", i - 1>>)) :
                       i \in DOMAIN tree[2]}
         ELSE {<<route, tree>>}

\* C12 as stated: trees whose leaves differ in route or value have different
\* path sets, and so are never at distance 0.
C12_FlattenLossless ==
    (pc = "done" /\ Leaves(normalize_workflow_seeds(fargs[1]), <<>>)
                    # Leaves(normalize_workflow_seeds(fargs[2]), <<>>))
      => /\ fres[1] # fres[2]
         /\ fres[3][1] # 0

\* ------------------------------------------------------------------ C13
InitialLines == {j \in DOMAIN report : LineAction(report[j]) = "INITIAL"}

\* C13 as stated: one document per run is handled as the initial file; every
\* document loaded after the first loaded one is compared and gets a decision.
C13_OneInitialFile ==
    /\ Cardinality(InitialLines) <= 1
    /\ \A j \in DOMAIN report :
         (Loaded(report[j]) /\ LoadedLines(j - 1) # {}) => Compared(report[j])

\* ------------------------------------------------------------------ C14
\* a threshold run has ended and no load and no delete failed in it
CleanThresholdRun ==
    /\ pc = "done"
    /\ is_deletion_mode
    /\ \A j \in DOMAIN report : LineAction(report[j]) \notin {"ERROR", "DELETE_ERROR"}
\* surviving files with no surviving file between them
AdjacentSurvivors ==
    {p \in disk \X disk :
       /\ p[1] < p[2]
       /\ \A m \in disk : ~(p[1] < m /\ m < p[2])}

\* C14 as stated: after such a run every two adjacent survivors are at a
\* distance of at least the threshold.
C14_AdjacentSurvivorsApart ==
    CleanThresholdRun =>
      \A p \in AdjacentSurvivors :
        ~Below(calculate_json_difference_percentage(json_files[p[1]], json_files[p[2]]))

\* the same, for runs over documents none of which is null
C14_ApartWithoutNull ==
    (CleanThresholdRun /\ \A i \in DOMAIN json_files : json_files[i] # PyNone) =>
      \A p \in AdjacentSurvivors :
        ~Below(calculate_json_difference_percentage(json_files[p[1]], json_files[p[2]]))
====
